---- MODULE Spec2Model ----
(***************************************************************************)
(* Model of the pump.fun launch extractor:                                 *)
(*   src/src/utils.rs  parse_create_token_data, read_u32, TransactionPretty *)
(*   src/src/main.rs   parse_instruction, process_tx_update,                *)
(*                     stream_pumpfun_launches                              *)
(*                                                                          *)
(* Bytes are numbers 0..255, byte buffers and Rust Strings are sequences of *)
(* bytes (a String is its UTF-8 bytes), base64/base58 text is a sequence of *)
(* one-character strings.                                                   *)
(***************************************************************************)
EXTENDS Integers, Sequences, FiniteSets, TLC

\* ------------------------------------------------------------------------
\* Bounds of the model
\* ------------------------------------------------------------------------

\* longest name / symbol / uri (in characters) of the generated records
MaxText == 1

\* longest raw byte buffer handed to the decoder
MaxRaw == 6

\* ------------------------------------------------------------------------
\* Program constants
\* ------------------------------------------------------------------------

\* utils.rs:66  let mut cursor = if decoded.len() > 8 { 8 } else { 0 };
PrefixLen == 8

\* utils.rs:120 size of a public key block (32 * 3)
KeyLen == 32

\* solana_sdk MAX_BASE58_LEN, the longest base-58 text Pubkey::from_str accepts
MaxBase58Len == 44

\* width of usize on the build target (x86_64 / aarch64)
UsizeBits == 64

\* ------------------------------------------------------------------------
\* base64 (the STANDARD engine: canonical padding, no trailing bits)
\* ------------------------------------------------------------------------

B64Alphabet ==
    << "A","B","C","D","E","F","G","H","I","J","K","L","M","N","O","P",
       "Q","R","S","T","U","V","W","X","Y","Z","a","b","c","d","e","f",
       "g","h","i","j","k","l","m","n","o","p","q","r","s","t","u","v",
       "w","x","y","z","0","1","2","3","4","5","6","7","8","9","+","/" >>

B64Chars == { B64Alphabet[i] : i \in 1..64 }

B64Value == [ c \in B64Chars |-> (CHOOSE i \in 1..64 : B64Alphabet[i] = c) - 1 ]

\* the "=" characters that end s
TrailingPad(s) ==
    IF \A i \in 1..Len(s) : s[i] = "=" THEN Len(s)
    ELSE Len(s) - (CHOOSE i \in 1..Len(s) : s[i] # "=" /\ \A j \in (i+1)..Len(s) : s[j] = "=")

\* byte k of the bytes that the 6-bit values v stand for: four values are
\* three bytes, a last group of two or three values is one or two bytes
B64Byte(v, k) ==
    LET g    == (k - 1) \div 3
        c(j) == IF 4 * g + j <= Len(v) THEN v[4 * g + j] ELSE 0
        n    == ((c(1) * 64 + c(2)) * 64 + c(3)) * 64 + c(4)
        pos  == (k - 1) % 3
    IN  IF pos = 0 THEN n \div 65536
        ELSE IF pos = 1 THEN (n \div 256) % 256
        ELSE n % 256

\* utils.rs:61-63  base64.decode(data)
Base64Decode(s) ==
    LET pad  == TrailingPad(s)
        body == SubSeq(s, 1, Len(s) - pad)
        r    == Len(body) % 4
        good == /\ \A i \in 1..Len(body) : body[i] \in B64Chars
                /\ r # 1
                /\ pad = (4 - r) % 4
                /\ r = 2 => B64Value[body[Len(body)]] % 16 = 0
                /\ r = 3 => B64Value[body[Len(body)]] % 4 = 0
        v    == [ i \in 1..Len(body) |-> B64Value[body[i]] ]
        n    == 3 * (Len(body) \div 4) + (IF r = 0 THEN 0 ELSE r - 1)
    IN  IF good
        THEN [ok |-> TRUE, bytes |-> [ k \in 1..n |-> B64Byte(v, k) ]]
        ELSE [ok |-> FALSE, bytes |-> << >>]

\* character k of the base64 text of b, "=" where the last group runs out
B64Char(b, k) ==
    LET g    == (k - 1) \div 4
        c(j) == IF 3 * g + j <= Len(b) THEN b[3 * g + j] ELSE 0
        n    == (c(1) * 256 + c(2)) * 256 + c(3)
        pos  == (k - 1) % 4
        have == Len(b) - 3 * g
    IN  IF pos = 0 THEN B64Alphabet[(n \div 262144) + 1]
        ELSE IF pos = 1 THEN B64Alphabet[((n \div 4096) % 64) + 1]
        ELSE IF pos = 2
             THEN IF have >= 2 THEN B64Alphabet[((n \div 64) % 64) + 1] ELSE "="
        ELSE IF have >= 3 THEN B64Alphabet[(n % 64) + 1] ELSE "="

\* the inverse direction, used to build the payloads the program logs
Base64Encode(b) == [ k \in 1..(4 * ((Len(b) + 2) \div 3)) |-> B64Char(b, k) ]

\* ------------------------------------------------------------------------
\* base58 (bs58::encode, and the decode inside Pubkey::from_str)
\* ------------------------------------------------------------------------

B58Alphabet ==
    << "1","2","3","4","5","6","7","8","9","A","B","C","D","E","F","G",
       "H","J","K","L","M","N","P","Q","R","S","T","U","V","W","X","Y",
       "Z","a","b","c","d","e","f","g","h","i","j","k","m","n","o","p",
       "q","r","s","t","u","v","w","x","y","z" >>

B58Chars == { B58Alphabet[i] : i \in 1..58 }

B58Value == [ c \in B58Chars |-> (CHOOSE i \in 1..58 : B58Alphabet[i] = c) - 1 ]

RECURSIVE CarryDigits(_, _)
\* while carry > 0 { push carry % radix; carry /= radix }
CarryDigits(carry, radix) ==
    IF carry = 0 THEN << >>
    ELSE << carry % radix >> \o CarryDigits(carry \div radix, radix)

RECURSIVE RadixRange(_, _, _, _, _, _)
\* for digit in d[lo..hi] { carry += digit * mul; digit = carry % radix;
\* carry /= radix }: the digits written and the carry left (the range is
\* halved so that the evaluation stays shallow)
RadixRange(d, lo, hi, carry, mul, radix) ==
    IF lo > hi THEN [out |-> << >>, carry |-> carry]
    ELSE IF lo = hi
    THEN LET x == d[lo] * mul + carry
         IN  [out |-> << x % radix >>, carry |-> x \div radix]
    ELSE LET mid   == (lo + hi) \div 2
             left  == RadixRange(d, lo, mid, carry, mul, radix)
             right == RadixRange(d, mid + 1, hi, left.carry, mul, radix)
         IN  [out |-> left.out \o right.out, carry |-> right.carry]

\* one input digit pushed into the little-endian number d:
\* d := d * mul + digit, written in base radix
RadixPush(d, digit, mul, radix) ==
    LET r == RadixRange(d, 1, Len(d), digit, mul, radix)
    IN  r.out \o CarryDigits(r.carry, radix)

RECURSIVE RadixFold(_, _, _, _, _, _)
\* for val in input[lo..hi] { push val into d }
RadixFold(input, lo, hi, d, mul, radix) ==
    IF lo > hi THEN d
    ELSE IF lo = hi THEN RadixPush(d, input[lo], mul, radix)
    ELSE LET mid  == (lo + hi) \div 2
             left == RadixFold(input, lo, mid, d, mul, radix)
         IN  IF Len(left) >= 0
             THEN RadixFold(input, mid + 1, hi, left, mul, radix)
             ELSE left

\* how many times z starts s
LeadingCount(s, z) ==
    IF \A i \in 1..Len(s) : s[i] = z THEN Len(s)
    ELSE (CHOOSE i \in 1..Len(s) : s[i] # z /\ \A j \in 1..(i-1) : s[j] = z) - 1

Reverse(s) == [ i \in 1..Len(s) |-> s[Len(s) + 1 - i] ]

\* utils.rs:125  bs58::encode(&decoded[cursor..cursor + 32]).into_string()
Bs58Encode(bytes) ==
    LET digits == RadixFold(bytes, 1, Len(bytes), << >>, 256, 58)
        zeros  == LeadingCount(bytes, 0)
        all    == digits \o [ i \in 1..zeros |-> 0 ]
    IN  [ i \in 1..Len(all) |-> B58Alphabet[all[Len(all) + 1 - i] + 1] ]

\* utils.rs:135  Pubkey::from_str(&mint): at most 44 characters of the base-58
\* alphabet that decode to exactly 32 bytes
PubkeyFromStr(s) ==
    IF Len(s) > MaxBase58Len \/ \E i \in 1..Len(s) : s[i] \notin B58Chars
    THEN [ok |-> FALSE, key |-> << >>]
    ELSE LET vals  == [ i \in 1..Len(s) |-> B58Value[s[i]] ]
             bytes == RadixFold(vals, 1, Len(vals), << >>, 58, 256)
             zeros == LeadingCount(s, "1")
             all   == Reverse(bytes \o [ i \in 1..zeros |-> 0 ])
         IN  IF Len(all) = KeyLen THEN [ok |-> TRUE, key |-> all]
             ELSE [ok |-> FALSE, key |-> << >>]

\* ------------------------------------------------------------------------
\* UTF-8 (String::from_utf8 keeps the bytes and only validates them)
\* ------------------------------------------------------------------------

IsCont(b) == b >= 128 /\ b <= 191

RECURSIVE Utf8Valid(_, _)
Utf8Valid(b, i) ==
    LET left == Len(b) - i + 1
        c(k) == left > k /\ IsCont(b[i + k])
    IN
    IF left <= 0 THEN TRUE
    ELSE IF b[i] < 128 THEN Utf8Valid(b, i + 1)
    ELSE IF b[i] >= 194 /\ b[i] <= 223 THEN c(1) /\ Utf8Valid(b, i + 2)
    ELSE IF b[i] = 224 THEN
        left > 2 /\ b[i+1] >= 160 /\ b[i+1] <= 191 /\ c(2) /\ Utf8Valid(b, i + 3)
    ELSE IF b[i] = 237 THEN
        left > 2 /\ b[i+1] >= 128 /\ b[i+1] <= 159 /\ c(2) /\ Utf8Valid(b, i + 3)
    ELSE IF b[i] >= 225 /\ b[i] <= 239 THEN c(1) /\ c(2) /\ Utf8Valid(b, i + 3)
    ELSE IF b[i] = 240 THEN
        left > 3 /\ b[i+1] >= 144 /\ b[i+1] <= 191 /\ c(2) /\ c(3) /\ Utf8Valid(b, i + 4)
    ELSE IF b[i] = 244 THEN
        left > 3 /\ b[i+1] >= 128 /\ b[i+1] <= 143 /\ c(2) /\ c(3) /\ Utf8Valid(b, i + 4)
    ELSE IF b[i] >= 241 /\ b[i] <= 243 THEN c(1) /\ c(2) /\ c(3) /\ Utf8Valid(b, i + 4)
    ELSE FALSE

FromUtf8Lossy(bytes) == [ok |-> TRUE, text |-> bytes]

\* utils.rs:81  String::from_utf8(bytes)
FromUtf8(bytes) == [ok |-> Utf8Valid(bytes, 1), text |-> bytes]

\* ------------------------------------------------------------------------
\* parse_create_token_data (utils.rs:54-140)
\* ------------------------------------------------------------------------

\* A u32 is kept as two 16-bit limbs (2^32 - 1 does not fit a machine integer
\* of the checker); cursors and buffer lengths are small naturals.
U32Of(n) == [hi |-> 0, lo |-> n]

Err(reason) == [kind |-> "err", err |-> reason]

Panic(site) == [kind |-> "panic", err |-> site]

\* a range index decoded[from..to] (0-based, end exclusive): panics when the
\* range is reversed or past the end
Slice(decoded, from, to) ==
    IF from > to \/ to > Len(decoded)
    THEN [panic |-> TRUE, bytes |-> << >>]
    ELSE [panic |-> FALSE, bytes |-> SubSeq(decoded, from + 1, to)]

read_u32_be(data) ==
    IF Len(data) < 4 THEN [panic |-> TRUE, hi |-> 0, lo |-> 0]
    ELSE [panic |-> FALSE, hi |-> data[2] + 256 * data[1], lo |-> data[4] + 256 * data[3]]

\* utils.rs:54-58  little-endian; &data[..4] panics on fewer than 4 bytes
read_u32(data) ==
    IF Len(data) < 4 THEN [panic |-> TRUE, hi |-> 0, lo |-> 0]
    ELSE [panic |-> FALSE, hi |-> data[3] + 256 * data[4], lo |-> data[1] + 256 * data[2]]

\* cursor + n in usize: the sum as limbs, and whether it leaves the usize range
UsizeAdd(cursor, n) ==
    LET s  == n.lo + cursor
        hi == n.hi + (s \div 65536)
    IN  [hi |-> hi, lo |-> s % 65536,
         overflow |-> UsizeBits <= 32 /\ hi >= 65536]

\* the sum cut to its low limb, as a wrapping add in a narrower type would
TooShortWrapping(cursor, n, len) ==
    LET end == UsizeAdd(cursor, n) IN end.lo > len

TooShortOffByOne(cursor, n, len) ==
    LET end == UsizeAdd(cursor, n) IN end.hi > 0 \/ end.lo >= len

\* utils.rs:69,75,86,92,103,109,120   cursor + n > decoded.len()
TooShort(cursor, n, len) ==
    LET end == UsizeAdd(cursor, n) IN end.hi > 0 \/ end.lo > len

PrefixSkipAtEight(decoded) == IF Len(decoded) >= PrefixLen THEN PrefixLen ELSE 0

\* utils.rs:66
PrefixSkip(decoded) == IF Len(decoded) > PrefixLen THEN PrefixLen ELSE 0

\* utils.rs:68-83 (name), 85-100 (symbol), 102-117 (uri): one length-prefixed
\* text field read at cursor; lenErr, dataErr, utfErr are the three messages
ReadText(decoded, cursor, lenErr, dataErr, utfErr) ==
    IF TooShort(cursor, U32Of(4), Len(decoded)) THEN Err(lenErr)
    ELSE
    LET rest == Slice(decoded, cursor, Len(decoded))
        n    == read_u32(rest.bytes)
        c    == cursor + 4
        end  == UsizeAdd(c, n)
    IN  IF rest.panic \/ n.panic THEN Panic("read_u32")
        ELSE IF end.overflow THEN Panic("cursor + len overflows")
        ELSE IF TooShort(c, n, Len(decoded)) THEN Err(dataErr)
        ELSE IF end.hi > 0 THEN Panic("slice end past the buffer")
        ELSE
        LET raw == Slice(decoded, c, end.lo)
            s   == FromUtf8(raw.bytes)
        IN  IF raw.panic THEN Panic("slice end past the buffer")
            ELSE IF ~s.ok THEN Err(utfErr)
            ELSE [kind |-> "ok", text |-> s.text, cursor |-> end.lo]

\* utils.rs:125-137  one 32-byte block rendered in base 58 and read back by
\* Pubkey::from_str(..).unwrap()
ReadKey(decoded, cursor) ==
    LET raw == Slice(decoded, cursor, cursor + KeyLen)
        k   == PubkeyFromStr(Bs58Encode(raw.bytes))
    IN  IF raw.panic THEN Panic("key slice past the buffer")
        ELSE IF ~k.ok THEN Panic("Pubkey::from_str(..).unwrap()")
        ELSE [kind |-> "ok", key |-> k.key]

\* utils.rs:119-139
ReadKeys(decoded, cursor, name, symbol, uri) ==
    IF TooShort(cursor, U32Of(KeyLen * 3), Len(decoded))
    THEN Err("Data too short for public keys")
    ELSE
    LET mint          == ReadKey(decoded, cursor)
        bonding_curve == ReadKey(decoded, cursor + KeyLen)
        user          == ReadKey(decoded, cursor + 2 * KeyLen)
    IN  IF mint.kind # "ok" THEN mint
        ELSE IF bonding_curve.kind # "ok" THEN bonding_curve
        ELSE IF user.kind # "ok" THEN user
        ELSE [kind |-> "ok", err |-> "",
              event |-> [name |-> name, symbol |-> symbol, uri |-> uri,
                         mint |-> mint.key,
                         bonding_curve |-> bonding_curve.key,
                         user |-> user.key]]

\* utils.rs:65-139  the decoded buffer to an event (created_at, the wall
\* clock at decode time, is not part of the decoded data and is left out)
ParseDecoded(decoded) ==
    LET name == ReadText(decoded, PrefixSkip(decoded),
                         "Data too short for name length",
                         "Data too short for name",
                         "Invalid UTF-8 in name")
    IN  IF name.kind # "ok" THEN name
    ELSE
    LET symbol == ReadText(decoded, name.cursor,
                           "Data too short for symbol length",
                           "Data too short for symbol",
                           "Invalid UTF-8 in symbol")
    IN  IF symbol.kind # "ok" THEN symbol
    ELSE
    LET uri == ReadText(decoded, symbol.cursor,
                        "Data too short for URI length",
                        "Data too short for URI",
                        "Invalid UTF-8 in uri")
    IN  IF uri.kind # "ok" THEN uri
    ELSE ReadKeys(decoded, uri.cursor, name.text, symbol.text, uri.text)

\* utils.rs:60-140
parse_create_token_data(data) ==
    LET decoded == Base64Decode(data)
    IN  IF ~decoded.ok THEN Err("Failed to decode base64")
        ELSE ParseDecoded(decoded.bytes)

\* ------------------------------------------------------------------------
\* Inputs of the decoder: records in the documented layout, the same buffers
\* cut short, raw buffers and base64 text
\* ------------------------------------------------------------------------

\* the 8-byte discriminant the program puts before a creation record
Discriminant == << 27, 114, 169, 77, 222, 235, 99, 118 >>

\* "A" and the three-byte character U+20AC
TextChars == { << 65 >>, << 226, 130, 172 >> }

RECURSIVE TextsUpTo(_)
TextsUpTo(n) ==
    IF n = 0 THEN { << >> }
    ELSE LET p == TextsUpTo(n - 1) IN p \cup { t \o c : t \in p, c \in TextChars }

Texts == TextsUpTo(MaxText)

KeyFill(b) == [ i \in 1..KeyLen |-> b ]

KeyRamp == [ i \in 1..KeyLen |-> i ]

KeyLeadZero == [ i \in 1..KeyLen |-> IF i <= 2 THEN 0 ELSE 7 * i ]

KeyTriples ==
    { << KeyRamp, KeyFill(255), KeyFill(0) >>,
      << KeyLeadZero, KeyRamp, KeyRamp >>,
      << KeyFill(0), KeyLeadZero, KeyFill(255) >> }

Records ==
    { [name |-> n, symbol |-> s, uri |-> u,
       mint |-> k[1], bonding_curve |-> k[2], user |-> k[3]] :
      n \in Texts, s \in Texts, u \in Texts, k \in KeyTriples }

LE32(n) == << n % 256, (n \div 256) % 256, (n \div 65536) % 256, 0 >>

LenPrefixed(t) == LE32(Len(t)) \o t

\* 8-byte prefix, three (length, bytes) fields, three 32-byte blocks
EncodeRecord(r) ==
    Discriminant \o LenPrefixed(r.name) \o LenPrefixed(r.symbol) \o LenPrefixed(r.uri)
    \o r.mint \o r.bonding_curve \o r.user

NoRecord ==
    [name |-> << >>, symbol |-> << >>, uri |-> << >>,
     mint |-> << >>, bonding_curve |-> << >>, user |-> << >>]

Origin(kind, rec, bytes, text) ==
    [kind |-> kind, rec |-> rec, bytes |-> bytes, text |-> text]

RecordOrigins ==
    { Origin("record", r, EncodeRecord(r), Base64Encode(EncodeRecord(r))) : r \in Records }

CutRecords ==
    { r \in Records : r.uri = r.name /\ r.mint = KeyRamp /\ r.user = KeyFill(0) }

CutOrigins ==
    UNION { { Origin("cut", r, SubSeq(EncodeRecord(r), 1, k),
                     Base64Encode(SubSeq(EncodeRecord(r), 1, k))) :
              k \in 0..(Len(EncodeRecord(r)) - 1) } : r \in CutRecords }

\* bytes that are no UTF-8: a byte no encoding contains, and the first two
\* bytes of a three-byte character
BadTexts == { << 255 >>, << 226, 130 >> }

\* records with at least one text field that is no UTF-8
GarbledRecords ==
    { [name |-> n, symbol |-> s, uri |-> u,
       mint |-> KeyRamp, bonding_curve |-> KeyFill(255), user |-> KeyFill(0)] :
      n \in Texts \cup BadTexts, s \in Texts \cup BadTexts, u \in Texts \cup BadTexts }
    \ Records

\* where the three text fields of the buffer of r end
TextsEnd(r) == PrefixLen + 12 + Len(r.name) + Len(r.symbol) + Len(r.uri)

\* their buffers, whole or cut somewhere in the text fields
GarbledOrigins ==
    UNION { { Origin("garbled", r, SubSeq(EncodeRecord(r), 1, k),
                     Base64Encode(SubSeq(EncodeRecord(r), 1, k))) :
              k \in ((PrefixLen + 1)..TextsEnd(r)) \cup { Len(EncodeRecord(r)) } } :
            r \in GarbledRecords }

RawBytes == { 0, 1, 255 }

RECURSIVE RawUpTo(_)
RawUpTo(n) ==
    IF n = 0 THEN { << >> }
    ELSE LET p == RawUpTo(n - 1) IN p \cup { t \o << b >> : t \in p, b \in RawBytes }

RawHeads == { << >>, << 0, 0, 0, 0 >>, Discriminant }

RawOrigins ==
    { Origin("raw", NoRecord, h \o t, Base64Encode(h \o t)) :
      h \in RawHeads, t \in RawUpTo(MaxRaw) }

\* text that is not the base64 of anything, and two short texts that are
TextInputs ==
    { << "!" >>, << "A" >>, << "Q", "Q" >>, << "Q", "R", "=", "=" >>,
      << "Q", "=", "=", "=" >>, << "=", "=", "=", "=" >>,
      << "Q", "Q", "=", "=", "Q", "Q", "=", "=" >>, << "Q", "Q", " ", "Q" >>,
      << "Q", "Q", "=", "=" >>, << "A", "A", "A", "A" >> }

TextOrigins == { Origin("text", NoRecord, << >>, t) : t \in TextInputs }

DecOrigins ==
    RecordOrigins \cup CutOrigins \cup GarbledOrigins \cup RawOrigins \cup TextOrigins

NoResult == [kind |-> "none", err |-> ""]

\* ------------------------------------------------------------------------
\* Log lines.  A line is what the Solana runtime writes:
\*   "Program <id> invoke [k]", "Program <id> success",
\*   "Program log: Instruction: <name>", "Program data: <text>", anything else.
\* text holds a data line as tokens, the first being the "Program data: "
\* prefix and the others single characters
\* ------------------------------------------------------------------------

DataPrefix == "Program data: "

InvokeLine == [kind |-> "invoke", name |-> "", text |-> << >>]

SuccessLine == [kind |-> "success", name |-> "", text |-> << >>]

\* a line of another program, or a log line that is no instruction marker
OtherLine == [kind |-> "other", name |-> "", text |-> << >>]

Marker(name) == [kind |-> "instruction", name |-> name, text |-> << >>]

DataLine(content) == [kind |-> "data", name |-> "", text |-> << DataPrefix >> \o content]

\* main.rs:159  log.contains("Program <PUMPFUN_PROGRAM_ID> invoke")
ContainsInvoke(log) == log.kind = "invoke"

\* main.rs:176  log.contains("Program log: Instruction:")
ContainsInstruction(log) == log.kind = "instruction"

\* main.rs:177  log.contains("Create")
ContainsCreate(log) == log.name \in { "Create" }

\* main.rs:179  log.contains("Buy") || log.contains("Sell")
ContainsBuyOrSell(log) == log.name \in { "Buy" } \/ log.name \in { "Sell" }

\* main.rs:186  log.starts_with("Program data: ")
StartsWithData(log) == Len(log.text) > 0 /\ log.text[1] = DataPrefix

\* main.rs:195  log.contains("Program <PUMPFUN_PROGRAM_ID> success")
ContainsSuccess(log) == log.kind = "success"

NoTrim(text) == text

RECURSIVE TrimStartMatches(_)
\* main.rs:187  log.trim_start_matches("Program data: "): every leading
\* repetition of the prefix is removed
TrimStartMatches(text) ==
    IF Len(text) > 0 /\ text[1] = DataPrefix THEN TrimStartMatches(Tail(text)) ELSE text

\* str::len of what is left: the prefix token counts its 14 bytes, every
\* other token is one ASCII character
StrLen(text) ==
    Len(text) + 13 * Cardinality({ i \in 1..Len(text) : text[i] = DataPrefix })

\* ------------------------------------------------------------------------
\* parse_instruction (main.rs:149-216): the loop body as a function of the
\* locals and the line read
\* ------------------------------------------------------------------------

\* main.rs:150-155  captures lists the arguments of the calls of
\* parse_create_token_data (main.rs:203), panicked is a panic of that call
ScanStart ==
    [invoke_depth |-> 0, current_instruction |-> "none", program_data |-> << >>,
     last_data_len |-> 0, instructions |-> << >>, captures |-> << >>,
     panicked |-> FALSE]

NeverOutside(depth) == FALSE

\* main.rs:171  if invoke_depth == 0 { continue; }
Outside(depth) == depth = 0

AtAnyLevel(depth) == depth >= 1

\* main.rs:176  invoke_depth == 1
AtTopLevel(depth) == depth = 1

LongerOrEqual(len, last) == len >= last

\* main.rs:188  data.len() > last_data_len
Longer(len, last) == len > last

ClosesAnyLevel(depth) == depth >= 0

\* main.rs:197  invoke_depth == 0
ClosesTopLevel(depth) == depth = 0

DecodesAnyKind(kind) == kind # "none"

\* main.rs:199-202  Some(instruction_type) matched against "create"
DecodesKind(kind) == kind = "create"

NeverReset(depth) == FALSE

\* main.rs:161  if invoke_depth == 1, after the increment
TopLevelCall(depth) == depth = 1

\* main.rs:160-166
OnInvoke(st) ==
    IF TopLevelCall(st.invoke_depth + 1)
    THEN [st EXCEPT !.invoke_depth = 1, !.current_instruction = "none",
                    !.program_data = << >>, !.last_data_len = 0]
    ELSE [st EXCEPT !.invoke_depth = st.invoke_depth + 1]

FirstMarkerWins(st, log) ==
    IF st.current_instruction # "none" THEN st
    ELSE IF ContainsCreate(log) THEN [st EXCEPT !.current_instruction = "create"]
    ELSE IF ContainsBuyOrSell(log) THEN [st EXCEPT !.current_instruction = "trade"]
    ELSE st

\* main.rs:177-181
OnInstruction(st, log) ==
    IF ContainsCreate(log) THEN [st EXCEPT !.current_instruction = "create"]
    ELSE IF ContainsBuyOrSell(log) THEN [st EXCEPT !.current_instruction = "trade"]
    ELSE st

\* main.rs:186-192
OnData(st, log) ==
    IF StartsWithData(log)
    THEN LET d == TrimStartMatches(log.text)
         IN  IF Longer(StrLen(d), st.last_data_len)
             THEN [st EXCEPT !.program_data = d, !.last_data_len = StrLen(d)]
             ELSE st
    ELSE st

\* the payloads the logs of the model carry, each with what
\* parse_create_token_data returns for it
ParseMemo(payloads) == { << p, parse_create_token_data(p) >> : p \in payloads }

\* main.rs:203  parse_create_token_data(&program_data), looked up in the table
Decoded(decoded, p) == (CHOOSE e \in decoded : e[1] = p)[2]

StopOnRejected(st) == [st EXCEPT !.panicked = TRUE]

\* main.rs:203-205  if let Ok(..) has no else: a payload the decoder rejects
\* changes nothing
DropRejected(st) == st

PushFirst(events, e) == << e >> \o events

\* main.rs:204  instructions.push(token_info)
PushEvent(events, e) == Append(events, e)

\* main.rs:195-212  decoded is parse_create_token_data, as a table
OnSuccess(st, log, decoded) ==
    IF ContainsSuccess(log)
    THEN LET d == st.invoke_depth - 1
             s == [st EXCEPT !.invoke_depth = d]
         IN  IF /\ ClosesTopLevel(d)
                /\ st.current_instruction # "none"
                /\ st.program_data # << >>
                /\ DecodesKind(st.current_instruction)
             THEN LET r == Decoded(decoded, st.program_data)
                      c == [s EXCEPT !.captures = Append(@, st.program_data)]
                  IN  IF r.kind = "ok"
                      THEN [c EXCEPT !.instructions = PushEvent(@, r.event)]
                      ELSE IF r.kind = "panic" THEN [c EXCEPT !.panicked = TRUE]
                      ELSE DropRejected(c)
             ELSE s
    ELSE st

\* main.rs:157-213  one iteration of the loop
ScanLine(st, log, decoded) ==
    IF ContainsInvoke(log) THEN OnInvoke(st)
    ELSE IF Outside(st.invoke_depth) THEN st
    ELSE IF AtTopLevel(st.invoke_depth) /\ ContainsInstruction(log)
         THEN OnInstruction(st, log)
    ELSE OnSuccess(OnData(st, log), log, decoded)

\* ------------------------------------------------------------------------
\* Inputs of the scanner: the lines a transaction's log may hold
\* ------------------------------------------------------------------------

\* longest log (lines) of one transaction
MaxLogs == 6

\* most data lines, and most depth-1 instruction markers, of one top-level
\* invocation
MaxData == 2

MaxMarks == 2

\* deepest nesting of the target program
MaxDepth == 2

RecA ==
    [name |-> << >>, symbol |-> << >>, uri |-> << >>,
     mint |-> KeyRamp, bonding_curve |-> KeyFill(255), user |-> KeyFill(0)]

RecB == [RecA EXCEPT !.mint = KeyLeadZero, !.user = KeyRamp]

RecLong == [RecA EXCEPT !.name = << 226, 130, 172 >>, !.symbol = << 65 >>]

PayloadOf(r) == Base64Encode(EncodeRecord(r))

\* what follows the first "Program data: " of a data line: two payloads of
\* the same length, a longer one, one that repeats the prefix before four
\* characters that decode to no record, and nothing
PoolRecords == { RecA, RecB, RecLong }

PoolContents ==
    { PayloadOf(r) : r \in PoolRecords }
    \cup { << DataPrefix, "A", "A", "A", "A" >>, << >> }

MarkerNames == { "Create", "Buy", "Sell", "Withdraw" }

Lines ==
    { InvokeLine, SuccessLine, OtherLine }
    \cup { Marker(n) : n \in MarkerNames }
    \cup { DataLine(c) : c \in PoolContents }

ScanPayloads ==
    UNION { { c, TrimStartMatches(c), << DataPrefix >> \o c } :
            c \in PoolContents }

ScanMemo == ParseMemo(ScanPayloads)

\* ------------------------------------------------------------------------
\* State
\* ------------------------------------------------------------------------

VARIABLES
    dec_pc,        \* "idle" | "call" | "returned": one call of parse_create_token_data
    dec_origin,    \* how the argument was built (record, cut, raw bytes, text)
    dec_data,          \* utils.rs:60  the argument, base64 text
    dec_result,    \* what the call returned, or that it panicked
    scan_pc,       \* "idle" | "loop" | "done" | "panicked": one call of parse_instruction
    logs_read,     \* lines of logs the loop has consumed
    log,           \* main.rs:157  the line of the last iteration
    invoke_depth,          \* main.rs:152
    current_instruction,   \* main.rs:150  "none" | "create" | "trade"
    program_data,          \* main.rs:151
    last_data_len,         \* main.rs:153
    instructions,          \* main.rs:155
    captures,      \* the arguments of the calls at main.rs:203, in order
    cands,         \* text after the prefix of the data lines collected since the last depth 0 -> 1
    marks,         \* names of the instruction markers read at depth 1 since then
    scan_result,   \* main.rs:215  the value returned
    invocations,   \* main.rs:149  the top-level invocations the logs of a whole transaction are made of
    prod_pc,       \* main.rs:64-90  "subscribe" | "stream" | "send" | "stopped": the spawned task
    produced,      \* items the stream has yielded
    pending,       \* main.rs:79  the update the producer is sending
    queue,         \* main.rs:41  the channel
    cons_pc,       \* main.rs:93-100  "recv" | "from" | "process" | "panicked" | "finished"
    msg,           \* main.rs:93  the update taken from the channel
    tx,            \* main.rs:95  what TransactionPretty::from made of it
    reported,      \* the error! lines written, in order
    sunk,          \* the events appended to create_token_log.json, in order
    done,          \* the updates the consumer is through with, and how each ended
    received       \* main.rs:78  the updates the stream has yielded as Ok(update), in order

decVars == << dec_pc, dec_origin, dec_data, dec_result >>

scanLocals ==
    << invoke_depth, current_instruction, program_data, last_data_len, instructions >>

scanVars ==
    << scan_pc, logs_read, log, scanLocals, captures, cands, marks, scan_result,
       invocations >>

pipeVars ==
    << prod_pc, produced, pending, queue, cons_pc, msg, tx, reported, sunk, done,
       received >>

vars == << decVars, scanVars, pipeVars >>

NoLine == [kind |-> "none", name |-> "", text |-> << >>]

DecIdle ==
    /\ dec_pc = "idle"
    /\ dec_origin = Origin("text", NoRecord, << >>, << >>)
    /\ dec_data = << >>
    /\ dec_result = NoResult

ScanLocalsAre(st) ==
    /\ invoke_depth = st.invoke_depth
    /\ current_instruction = st.current_instruction
    /\ program_data = st.program_data
    /\ last_data_len = st.last_data_len
    /\ instructions = st.instructions
    /\ captures = st.captures

\* an update of the stream: a transaction update (with or without its
\* transaction info, the info with or without metadata) or another kind
TxUpdate(info, sig_ok, meta, logs) ==
    [oneof |-> "transaction", info |-> info, sig_ok |-> sig_ok, meta |-> meta,
     logs |-> logs]

NoUpdate ==
    [oneof |-> "none", info |-> FALSE, sig_ok |-> FALSE, meta |-> "none", logs |-> << >>]

NoTx == [kind |-> "none", err |-> "", meta |-> "none"]

PipeIdle ==
    /\ prod_pc = "stopped"
    /\ produced = 0
    /\ pending = NoUpdate
    /\ queue = << >>
    /\ cons_pc = "finished"
    /\ msg = NoUpdate
    /\ tx = NoTx
    /\ reported = << >>
    /\ sunk = << >>
    /\ done = << >>
    /\ received = << >>

ScanFresh(pc) ==
    /\ scan_pc = pc
    /\ logs_read = 0
    /\ log = NoLine
    /\ ScanLocalsAre(ScanStart)
    /\ cands = << >>
    /\ marks = << >>
    /\ scan_result = NoResult
    /\ invocations = << >>

\* ------------------------------------------------------------------------
\* Specification of the decoder: every input, one call
\* ------------------------------------------------------------------------

DecInit ==
    /\ dec_origin \in DecOrigins
    /\ dec_pc = "call"
    /\ dec_data = dec_origin.text
    /\ dec_result = NoResult
    /\ ScanFresh("idle")
    /\ PipeIdle

\* utils.rs:60-140
Decode ==
    /\ dec_pc = "call"
    /\ dec_result' = parse_create_token_data(dec_data)
    /\ dec_pc' = "returned"
    /\ UNCHANGED << dec_origin, dec_data, scanVars, pipeVars >>

DecNext == Decode

DecSpec == DecInit /\ [][DecNext]_vars

\* ------------------------------------------------------------------------
\* Specification of the scanner: one call of parse_instruction, the lines of
\* logs drawn as the loop reads them
\* ------------------------------------------------------------------------

ScanState ==
    [invoke_depth |-> invoke_depth, current_instruction |-> current_instruction,
     program_data |-> program_data, last_data_len |-> last_data_len,
     instructions |-> instructions, captures |-> captures, panicked |-> FALSE]

ScanInit == DecIdle /\ ScanFresh("loop") /\ PipeIdle

\* the logs of the model: at most MaxLogs lines, nesting at most MaxDepth,
\* at most MaxData data lines and MaxMarks depth-1 markers per top-level
\* invocation
InBounds(l) ==
    /\ logs_read < MaxLogs
    /\ ContainsInvoke(l) => invoke_depth < MaxDepth
    /\ (invoke_depth >= 1 /\ StartsWithData(l)) => Len(cands) < MaxData
    /\ (invoke_depth = 1 /\ ContainsInstruction(l)) => Len(marks) < MaxMarks

\* one iteration of main.rs:157-213 on line l
Step(l) ==
    LET collects == /\ ~ContainsInvoke(l)
                    /\ invoke_depth >= 1
                    /\ ~(invoke_depth = 1 /\ ContainsInstruction(l))
                    /\ StartsWithData(l)
    IN  /\ scan_pc = "loop"
        /\ \E st \in { ScanLine(ScanState, l, ScanMemo) } :
           /\ log' = l
           /\ logs_read' = logs_read + 1
           /\ invoke_depth' = st.invoke_depth
           /\ current_instruction' = st.current_instruction
           /\ program_data' = st.program_data
           /\ last_data_len' = st.last_data_len
           /\ instructions' = st.instructions
           /\ captures' = st.captures
           /\ scan_pc' = IF st.panicked THEN "panicked" ELSE "loop"
           /\ cands' = IF ContainsInvoke(l) /\ invoke_depth = 0 THEN << >>
                       ELSE IF collects THEN Append(cands, Tail(l.text))
                       ELSE cands
           /\ marks' = IF ContainsInvoke(l) /\ invoke_depth = 0 THEN << >>
                       ELSE IF ~ContainsInvoke(l) /\ invoke_depth = 1 /\ ContainsInstruction(l)
                       THEN Append(marks, l.name)
                       ELSE marks
           /\ UNCHANGED << scan_result, invocations, decVars, pipeVars >>

\* an iteration on a line the bounds of the model admit
Iterate(l) == InBounds(l) /\ Step(l)

\* main.rs:159-168
ReadInvoke == \E l \in Lines : ContainsInvoke(l) /\ Iterate(l)

\* main.rs:171-173
SkipOutside == \E l \in Lines : ~ContainsInvoke(l) /\ invoke_depth = 0 /\ Iterate(l)

\* main.rs:176-183
ReadInstruction ==
    \E l \in Lines :
        /\ ~ContainsInvoke(l)
        /\ invoke_depth = 1
        /\ ContainsInstruction(l)
        /\ Iterate(l)

\* main.rs:186-212
ReadInside ==
    \E l \in Lines :
        /\ ~ContainsInvoke(l)
        /\ invoke_depth >= 1
        /\ ~(invoke_depth = 1 /\ ContainsInstruction(l))
        /\ Iterate(l)

\* main.rs:215  the end of logs: Ok(instructions)
ScanReturn ==
    /\ scan_pc = "loop"
    /\ scan_pc' = "done"
    /\ scan_result' = [kind |-> "ok", err |-> "", events |-> instructions]
    /\ UNCHANGED << logs_read, log, scanLocals, captures, cands, marks, invocations,
                    decVars, pipeVars >>

ScanNext == ReadInvoke \/ SkipOutside \/ ReadInstruction \/ ReadInside \/ ScanReturn

ScanSpec == ScanInit /\ [][ScanNext]_vars

\* ------------------------------------------------------------------------
\* Specification of the scanner on whole transactions: the logs are those of
\* up to MaxInvocations top-level invocations, one after the other, read to
\* the end
\* ------------------------------------------------------------------------

MaxInvocations == 2

\* a payload of four characters that decode to three bytes, no record
BadContent == << DataPrefix, "A", "A", "A", "A" >>

InvocationKinds ==
    { "create_a", "create_long", "create_bad", "create_empty", "trade", "bare",
      "nested", "outside" }

\* the lines the program logs for one top-level invocation; "outside" is
\* what a runtime prints between two invocations
InvocationLines(kind) ==
    CASE kind = "create_a" ->
           << InvokeLine, Marker("Create"), DataLine(PayloadOf(RecA)), SuccessLine >>
      [] kind = "create_long" ->
           << InvokeLine, Marker("Create"), DataLine(PayloadOf(RecLong)), SuccessLine >>
      [] kind = "create_bad" ->
           << InvokeLine, Marker("Create"), DataLine(BadContent), SuccessLine >>
      [] kind = "create_empty" ->
           << InvokeLine, Marker("Create"), DataLine(<< >>), SuccessLine >>
      [] kind = "trade" ->
           << InvokeLine, Marker("Buy"), DataLine(PayloadOf(RecA)), SuccessLine >>
      [] kind = "bare" ->
           << InvokeLine, SuccessLine >>
      [] kind = "nested" ->
           << InvokeLine, Marker("Create"), InvokeLine, Marker("Buy"),
              DataLine(PayloadOf(RecB)), SuccessLine, SuccessLine >>
      [] kind = "outside" ->
           << Marker("Create"), DataLine(PayloadOf(RecA)), SuccessLine >>

RECURSIVE TxLogs(_, _)
\* the logs of the first k invocations of a transaction
TxLogs(invs, k) ==
    IF k = 0 THEN << >> ELSE TxLogs(invs, k - 1) \o InvocationLines(invs[k])

Transactions ==
    UNION { [ 1..n -> InvocationKinds ] : n \in 0..MaxInvocations }

TxInit ==
    /\ DecIdle
    /\ PipeIdle
    /\ scan_pc = "loop"
    /\ logs_read = 0
    /\ log = NoLine
    /\ ScanLocalsAre(ScanStart)
    /\ cands = << >>
    /\ marks = << >>
    /\ scan_result = NoResult
    /\ invocations \in Transactions

\* main.rs:157  for log in logs
NextLog ==
    \E all \in { TxLogs(invocations, Len(invocations)) } :
       /\ logs_read < Len(all)
       /\ Step(all[logs_read + 1])

\* main.rs:215  the loop is over
EndOfLogs ==
    /\ logs_read = Len(TxLogs(invocations, Len(invocations)))
    /\ ScanReturn

TxNext == NextLog \/ EndOfLogs

TxSpec == TxInit /\ [][TxNext]_vars

\* ------------------------------------------------------------------------
\* Specification of the pipeline (stream_pumpfun_launches, main.rs:40-103):
\* the spawned producer task, the channel, the consumer loop
\* ------------------------------------------------------------------------

\* updates the stream yields in one run
MaxUpdates == 3

\* main.rs:41  mpsc::channel(100), scaled to the runs of the model
ChannelCapacity == 2

RECURSIVE ScanFold(_, _, _)
\* main.rs:157-213  the loop over logs from line i on
ScanFold(st, logs, i) ==
    IF i > Len(logs) \/ st.panicked THEN st
    ELSE ScanFold(ScanLine(st, logs[i], ScanMemo), logs, i + 1)

ErrOnRejected(st) ==
    IF \E i \in 1..Len(st.captures) : Decoded(ScanMemo, st.captures[i]).kind # "ok"
    THEN [kind |-> "err", err |-> "Failed to parse create token data", events |-> << >>]
    ELSE [kind |-> "ok", err |-> "", events |-> st.instructions]

\* main.rs:215  Ok(instructions), the only return of parse_instruction
OkInstructions(st) == [kind |-> "ok", err |-> "", events |-> st.instructions]

\* main.rs:149-216
parse_instruction(logs) ==
    LET st == ScanFold(ScanStart, logs, 1)
    IN  IF st.panicked THEN Panic("Pubkey::from_str(..).unwrap()")
        ELSE OkInstructions(st)

CreateLogs ==
    << InvokeLine, Marker("Create"), DataLine(PayloadOf(RecA)), SuccessLine >>

\* a creation whose payload decodes to no record, then a creation
RejectedLogs ==
    << InvokeLine, Marker("Create"), DataLine(<< DataPrefix, "A", "A", "A", "A" >>),
       SuccessLine >> \o CreateLogs

Ping == [NoUpdate EXCEPT !.oneof = "other"]

\* what the stream may yield: an update that is no transaction, a transaction
\* update without info, one with a malformed signature, one without metadata,
\* a failed transaction (with the logs of a creation), a creation, a
\* transaction without log messages, and a transaction with a payload the
\* decoder rejects
Updates ==
    { Ping,
      TxUpdate(FALSE, FALSE, "none", << >>),
      TxUpdate(TRUE, FALSE, "ok", CreateLogs),
      TxUpdate(TRUE, TRUE, "none", << >>),
      TxUpdate(TRUE, TRUE, "err", CreateLogs),
      TxUpdate(TRUE, TRUE, "ok", CreateLogs),
      TxUpdate(TRUE, TRUE, "ok", << >>),
      TxUpdate(TRUE, TRUE, "ok", RejectedLogs) }

\* utils.rs:39-52  TransactionPretty::from: the values it can end with.
\* create_tx_with_meta is library code outside the repository; for an info
\* without metadata both of its answers are kept: Err (the expect at
\* utils.rs:46-47 panics) and a transaction whose meta is None.
FromOutcomes(u) ==
    IF ~u.info THEN { Panic("should be defined") }
    ELSE IF ~u.sig_ok THEN { Panic("valid signature") }
    ELSE IF u.meta = "none"
    THEN { Panic("valid tx with meta"), [kind |-> "ok", err |-> "", meta |-> "none"] }
    ELSE { [kind |-> "ok", err |-> "", meta |-> u.meta] }

\* how the consumer ended with update u
Outcome(u, outcome, scanned, events) ==
    [update |-> u, outcome |-> outcome, scanned |-> scanned, events |-> events]

PipeInit ==
    /\ DecIdle
    /\ ScanFresh("idle")
    /\ prod_pc = "subscribe"
    /\ produced = 0
    /\ pending = NoUpdate
    /\ queue = << >>
    /\ cons_pc = "recv"
    /\ msg = NoUpdate
    /\ tx = NoTx
    /\ reported = << >>
    /\ sunk = << >>
    /\ done = << >>
    /\ received = << >>

\* a panic of the consumer unwinds main: the program is over
Running == cons_pc # "panicked"

\* main.rs:65-67
SubscribeOk ==
    /\ Running
    /\ prod_pc = "subscribe"
    /\ prod_pc' = "stream"
    /\ UNCHANGED << produced, pending, queue, cons_pc, msg, tx, reported, sunk, done,
                    received, decVars, scanVars >>

\* main.rs:68-71
SubscribeFails ==
    /\ Running
    /\ prod_pc = "subscribe"
    /\ prod_pc' = "stopped"
    /\ reported' = Append(reported, "Failed to subscribe")
    /\ UNCHANGED << produced, pending, queue, cons_pc, msg, tx, sunk, done,
                    received, decVars, scanVars >>

\* main.rs:76-78  the stream yields Ok(update)
StreamUpdate ==
    /\ Running
    /\ prod_pc = "stream"
    /\ produced < MaxUpdates
    /\ \E u \in Updates :
           /\ pending' = u
           /\ received' = Append(received, u)
    /\ produced' = produced + 1
    /\ prod_pc' = "send"
    /\ UNCHANGED << queue, cons_pc, msg, tx, reported, sunk, done, decVars, scanVars >>

\* main.rs:84-87  the stream yields Err(e)
StreamError ==
    /\ Running
    /\ prod_pc = "stream"
    /\ produced < MaxUpdates
    /\ produced' = produced + 1
    /\ reported' = Append(reported, "Stream error")
    /\ UNCHANGED << prod_pc, pending, queue, cons_pc, msg, tx, sunk, done,
                    received, decVars, scanVars >>

\* main.rs:76  the stream yields None: the task ends and drops the sender
StreamEnds ==
    /\ Running
    /\ prod_pc = "stream"
    /\ prod_pc' = "stopped"
    /\ UNCHANGED << produced, pending, queue, cons_pc, msg, tx, reported, sunk, done,
                    received, decVars, scanVars >>

HasRoomWhenFull(q) == Len(q) <= ChannelCapacity

\* main.rs:41, 79  a send completes only while the channel holds fewer
\* updates than its capacity
HasRoom(q) == Len(q) < ChannelCapacity

EnqueueFirst(q, u) == << u >> \o q

\* main.rs:79, 93  the channel is first in, first out
Enqueue(q, u) == Append(q, u)

\* main.rs:79  tx.send(update).await completes once the channel has room
Send ==
    /\ Running
    /\ prod_pc = "send"
    /\ HasRoom(queue)
    /\ queue' = Enqueue(queue, pending)
    /\ pending' = NoUpdate
    /\ prod_pc' = "stream"
    /\ UNCHANGED << produced, cons_pc, msg, tx, reported, sunk, done, received, decVars, scanVars >>

\* main.rs:79-82  the receiver is gone: the send fails and the task ends
SendFails ==
    /\ ~Running
    /\ prod_pc = "send"
    /\ pending' = NoUpdate
    /\ prod_pc' = "stopped"
    /\ reported' = Append(reported, "Failed to send update")
    /\ UNCHANGED << produced, queue, cons_pc, msg, tx, sunk, done, received, decVars, scanVars >>

\* main.rs:93-95  rx.recv() yields a transaction update
RecvTransaction ==
    /\ cons_pc = "recv"
    /\ queue # << >>
    /\ Head(queue).oneof = "transaction"
    /\ msg' = Head(queue)
    /\ queue' = Tail(queue)
    /\ cons_pc' = "from"
    /\ UNCHANGED << prod_pc, produced, pending, tx, reported, sunk, done,
                    received, decVars, scanVars >>

\* main.rs:93-94  rx.recv() yields another update: nothing is done with it
RecvOther ==
    /\ cons_pc = "recv"
    /\ queue # << >>
    /\ Head(queue).oneof # "transaction"
    /\ queue' = Tail(queue)
    /\ done' = Append(done, Outcome(Head(queue), "ignored", FALSE, 0))
    /\ UNCHANGED << prod_pc, produced, pending, cons_pc, msg, tx, reported, sunk,
                    received, decVars, scanVars >>

\* main.rs:93, 102  rx.recv() yields None: the channel is empty and closed
RecvNone ==
    /\ cons_pc = "recv"
    /\ queue = << >>
    /\ prod_pc = "stopped"
    /\ cons_pc' = "finished"
    /\ UNCHANGED << prod_pc, produced, pending, queue, msg, tx, reported, sunk, done,
                    received, decVars, scanVars >>

\* main.rs:95, utils.rs:39-52  TransactionPretty::from(subscribe_update_tx)
From ==
    /\ cons_pc = "from"
    /\ \E r \in FromOutcomes(msg) :
           /\ r.kind = "ok"
           /\ tx' = r
    /\ cons_pc' = "process"
    /\ UNCHANGED << prod_pc, produced, pending, queue, msg, reported, sunk, done,
                    received, decVars, scanVars >>

\* utils.rs:41, 44, 46-47  one of the expects of the conversion panics
FromPanics ==
    /\ cons_pc = "from"
    /\ \E r \in FromOutcomes(msg) :
           /\ r.kind = "panic"
           /\ tx' = r
    /\ cons_pc' = "panicked"
    /\ done' = Append(done, Outcome(msg, "panic", FALSE, 0))
    /\ UNCHANGED << prod_pc, produced, pending, queue, msg, reported, sunk,
                    received, decVars, scanVars >>

\* main.rs:107-110, 95-98  meta is None: Err, logged by the loop, next update
ProcessMissingMeta ==
    /\ cons_pc = "process"
    /\ tx.meta = "none"
    /\ reported' = Append(reported, "Missing transaction metadata")
    /\ done' = Append(done, Outcome(msg, "reported", FALSE, 0))
    /\ cons_pc' = "recv"
    /\ UNCHANGED << prod_pc, produced, pending, queue, msg, tx, sunk, received, decVars, scanVars >>

\* main.rs:112-114  meta.err.is_some(): Ok(()) before the logs are looked at
ProcessFailed ==
    /\ cons_pc = "process"
    /\ tx.meta = "err"
    /\ done' = Append(done, Outcome(msg, "skipped", FALSE, 0))
    /\ cons_pc' = "recv"
    /\ UNCHANGED << prod_pc, produced, pending, queue, msg, tx, reported, sunk,
                    received, decVars, scanVars >>

\* main.rs:116-146  parse_instruction(logs)?, then every event printed and
\* appended to the file; append_to_json_file (utils.rs:163-182) unwraps its
\* file operations, so the first n events are written and a failure after
\* them is a panic.  An Err of parse_instruction would leave through ? and
\* be logged at main.rs:96.
ProcessLogs ==
    /\ cons_pc = "process"
    /\ tx.meta = "ok"
    /\ \E r \in { parse_instruction(msg.logs) } :
           IF r.kind = "panic"
           THEN /\ cons_pc' = "panicked"
                /\ done' = Append(done, Outcome(msg, "panic", TRUE, 0))
                /\ sunk' = sunk
                /\ reported' = reported
           ELSE IF r.kind = "err"
           THEN /\ cons_pc' = "recv"
                /\ done' = Append(done, Outcome(msg, "reported", TRUE, 0))
                /\ sunk' = sunk
                /\ reported' = Append(reported, r.err)
           ELSE \E n \in 0..Len(r.events) :
                    /\ reported' = reported
                    /\ sunk' = sunk \o SubSeq(r.events, 1, n)
                    /\ IF n = Len(r.events)
                       THEN /\ cons_pc' = "recv"
                            /\ done' = Append(done, Outcome(msg, "scanned", TRUE, n))
                       ELSE /\ cons_pc' = "panicked"
                            /\ done' = Append(done, Outcome(msg, "panic", TRUE, n))
    /\ UNCHANGED << prod_pc, produced, pending, queue, msg, tx,
                    received, decVars, scanVars >>

Next ==
    \/ SubscribeOk
    \/ SubscribeFails
    \/ StreamUpdate
    \/ StreamError
    \/ StreamEnds
    \/ Send
    \/ SendFails
    \/ RecvTransaction
    \/ RecvOther
    \/ RecvNone
    \/ From
    \/ FromPanics
    \/ ProcessMissingMeta
    \/ ProcessFailed
    \/ ProcessLogs

Spec == PipeInit /\ [][Next]_vars

\* main.rs:92-100  the steps of the consumer loop
ConsumerStep ==
    \/ RecvTransaction
    \/ RecvOther
    \/ RecvNone
    \/ From
    \/ FromPanics
    \/ ProcessMissingMeta
    \/ ProcessFailed
    \/ ProcessLogs

\* the runtime runs a task that can go on: the consumer loop between two
\* awaits, and the producer's send once the channel has room or is closed;
\* what the stream yields, and when, is left to the stream
FairSpec == Spec /\ WF_vars(ConsumerStep) /\ WF_vars(Send \/ SendFails)

\* ------------------------------------------------------------------------
\* Claims about the scanner (checked under ScanSpec)
\* ------------------------------------------------------------------------

\* the logs read are exactly: invoke, a "Create" marker and one data line (in
\* either order), success
OnePairOneData ==
    /\ logs_read = 4
    /\ invoke_depth = 0
    /\ ContainsSuccess(log)
    /\ marks = << "Create" >>
    /\ Len(cands) = 1

\* C1 as stated: one matched invoke/success pair with a depth-1 "Create"
\* marker and exactly one data line yields exactly one creation capture, whose
\* payload is the content of that data line.
C1_CaptureIsContent ==
    OnePairOneData => captures = << cands[1] >>

\* C1, amended: the payload is the data line without its leading
\* "Program data: " prefixes (all repetitions); if nothing is left no capture
\* is made, otherwise exactly that payload is handed to
\* parse_create_token_data, once, and an event is returned exactly when it
\* decodes.
C1_CaptureIsTrimmed ==
    OnePairOneData =>
        LET p == TrimStartMatches(cands[1])
        IN  IF p = << >> THEN captures = << >> /\ instructions = << >>
            ELSE /\ captures = << p >>
                 /\ instructions =
                        IF Decoded(ScanMemo, p).kind = "ok"
                        THEN << Decoded(ScanMemo, p).event >> ELSE << >>

\* a content that starts with the prefix again: the capture is what follows it
C1_Witness ==
    /\ OnePairOneData
    /\ cands[1] = << DataPrefix, "A", "A", "A", "A" >>
    /\ captures = << << "A", "A", "A", "A" >> >>
    /\ instructions = << >>

\* C2: a line read at depth >= 2 never changes current_instruction, and the
\* kind is only ever set (to create or trade) by an instruction marker read
\* at depth exactly 1; a nested Buy/Sell marker inside a top-level Create
\* leaves the kind at create.
C2_KindOnlyAtDepthOne ==
    [][ /\ invoke_depth >= 2 => current_instruction' = current_instruction
        /\ current_instruction' \notin { current_instruction, "none" } =>
               /\ invoke_depth = 1
               /\ ContainsInstruction(log')
               /\ ~ContainsInvoke(log') ]_vars

\* a Buy marker was just read inside a nested invocation of a Create
C2_Witness ==
    /\ scan_pc = "loop"
    /\ invoke_depth = 2
    /\ log = Marker("Buy")
    /\ marks = << "Create" >>
    /\ current_instruction = "create"

\* the payloads of the data lines collected since the last depth 0 -> 1
Payloads == [ i \in 1..Len(cands) |-> TrimStartMatches(cands[i]) ]

\* the first of the longest elements of s (str::len), nothing if s is empty
FirstLongest(s) ==
    IF s = << >> THEN << >>
    ELSE s[CHOOSE i \in 1..Len(s) :
               \A j \in 1..Len(s) :
                   /\ StrLen(s[j]) <= StrLen(s[i])
                   /\ j < i => StrLen(s[j]) < StrLen(s[i])]

\* C3: the payload held (and so the one held at closure) is the longest of
\* the data lines seen at depth >= 1 since the last depth 0 -> 1 transition,
\* and the first seen among those of that length.
C3_LongestFirstSeen ==
    /\ program_data = FirstLongest(Payloads)
    /\ last_data_len = StrLen(program_data)

\* a closure after two different payloads of the same length
C3_Witness ==
    /\ invoke_depth = 0
    /\ ContainsSuccess(log)
    /\ Len(cands) = 2
    /\ cands[1] # cands[2]
    /\ StrLen(cands[1]) = StrLen(cands[2])
    /\ program_data = cands[1]
    /\ captures = << cands[1] >>

\* the logs ended inside an invocation of the target program
Truncated == scan_pc = "done" /\ invoke_depth > 0

\* C4 as stated: logs that end with depth > 0 yield zero emissions for the
\* transaction, and no error.
C4_TruncatedEmitsNothing ==
    Truncated => scan_result = [kind |-> "ok", err |-> "", events |-> << >>]

\* C4, amended: what is pending in the invocation left open is dropped
\* silently: no step that ends at depth > 0 makes a capture or adds an event,
\* and at the end of the logs Ok is returned with the events of the top-level
\* invocations that closed before.
C4_OpenInvocationEmitsNothing ==
    [][ /\ invoke_depth' > 0 =>
               instructions' = instructions /\ captures' = captures
        /\ scan_pc' = "done" =>
               scan_result' = [kind |-> "ok", err |-> "", events |-> instructions] ]_vars

\* the logs end inside a Create with a payload pending: it is not handed to
\* the decoder
C4_Witness ==
    /\ Truncated
    /\ current_instruction = "create"
    /\ program_data = PayloadOf(RecA)
    /\ captures = << >>
    /\ scan_result = [kind |-> "ok", err |-> "", events |-> << >>]

\* C5: the close of a top-level invocation whose depth-1 markers are Buy or
\* Sell (none is Create) makes no capture and adds no event, whatever data
\* lines were collected during it.
C5_TradeEmitsNothing ==
    [][ ( /\ invoke_depth = 1
          /\ invoke_depth' = 0
          /\ marks # << >>
          /\ \A i \in 1..Len(marks) : marks[i] \in { "Buy", "Sell" } )
        => instructions' = instructions /\ captures' = captures ]_vars

\* a Sell invocation closed with a decodable payload held
C5_Witness ==
    /\ invoke_depth = 0
    /\ ContainsSuccess(log)
    /\ marks = << "Sell" >>
    /\ current_instruction = "trade"
    /\ program_data = PayloadOf(RecA)
    /\ captures = << >>
    /\ instructions = << >>

\* ------------------------------------------------------------------------
\* Claims about the decoder (checked under DecSpec)
\* ------------------------------------------------------------------------

Returned == dec_pc = "returned"

\* C6: a record encoded as 8-byte prefix, three (4-byte little-endian length,
\* bytes) fields and three 32-byte blocks decodes to an event whose name,
\* symbol, uri, mint, bonding_curve and user are the record's own six values
\* (so two different records never decode to the same six fields).
C6_RoundTrip ==
    (Returned /\ dec_origin.kind = "record") =>
        /\ dec_result.kind = "ok"
        /\ dec_result.event = dec_origin.rec

C6_Witness ==
    /\ Returned
    /\ dec_origin.kind = "record"
    /\ dec_origin.rec.name = << >>
    /\ dec_origin.rec.symbol = << 226, 130, 172 >>
    /\ dec_origin.rec.mint = KeyLeadZero
    /\ dec_result.kind = "ok"
    /\ dec_result.event.symbol = << 226, 130, 172 >>

\* the message of the field that holds the first missing byte of a record's
\* buffer cut to k bytes (k > PrefixLen)
CutError(r, k) ==
    LET a == PrefixLen + 4
        b == a + Len(r.name)
        c == b + 4
        d == c + Len(r.symbol)
        e == d + 4
        f == e + Len(r.uri)
    IN  IF k < a THEN "Data too short for name length"
        ELSE IF k < b THEN "Data too short for name"
        ELSE IF k < c THEN "Data too short for symbol length"
        ELSE IF k < d THEN "Data too short for symbol"
        ELSE IF k < e THEN "Data too short for URI length"
        ELSE IF k < f THEN "Data too short for URI"
        ELSE "Data too short for public keys"

\* C7: a well-formed buffer cut short (by one byte at a field boundary, or
\* anywhere after the prefix) yields the truncation error of the field at
\* which the bytes ran out, and a cut buffer never yields an event.
C7_TruncationNamesField ==
    (Returned /\ dec_origin.kind = "cut") =>
        /\ dec_result.kind = "err"
        /\ Len(dec_origin.bytes) > PrefixLen =>
               dec_result.err = CutError(dec_origin.rec, Len(dec_origin.bytes))

C7_Witness ==
    /\ Returned
    /\ dec_origin.kind = "cut"
    /\ Len(dec_origin.rec.symbol) > 0
    /\ Len(dec_origin.bytes) =
           PrefixLen + 4 + Len(dec_origin.rec.name) + 4 + Len(dec_origin.rec.symbol) - 1
    /\ dec_result = Err("Data too short for symbol")

EventFields == { "name", "symbol", "uri", "mint", "bonding_curve", "user" }

\* C8: every call returns an event with all six data fields or an error; it
\* never panics (out-of-range read, overflow, unwrap), whatever the text, the
\* buffer or the declared lengths (up to 2^32 - 1).
C8_Total ==
    Returned =>
        \/ dec_result.kind = "err"
        \/ /\ dec_result.kind = "ok"
           /\ DOMAIN dec_result.event = EventFields
           /\ \A k \in { "mint", "bonding_curve", "user" } :
                  Len(dec_result.event[k]) = KeyLen
           /\ \A t \in { "name", "symbol", "uri" } :
                  Utf8Valid(dec_result.event[t], 1)

\* a declared name length of 2^32 - 1 after the prefix
C8_Witness ==
    /\ Returned
    /\ dec_origin.kind = "raw"
    /\ dec_origin.bytes = Discriminant \o << 255, 255, 255, 255 >>
    /\ dec_result = Err("Data too short for name")

\* the name field declared at offset off fits the buffer d
DeclaredNameFits(d, off) ==
    /\ d[off + 3] = 0
    /\ d[off + 4] = 0
    /\ d[off + 1] + 256 * d[off + 2] <= Len(d) - off - 4

NameTruncation == { "Data too short for name length", "Data too short for name" }

\* what the decoder answers when it reads the name field of d at offset off
NameReadAt(d, off) ==
    IF Len(d) < off + 4 THEN dec_result = Err("Data too short for name length")
    ELSE IF DeclaredNameFits(d, off) THEN dec_result.err \notin NameTruncation
    ELSE dec_result = Err("Data too short for name")

\* C9: the 8-byte prefix is skipped exactly when the buffer is longer than 8
\* bytes; a buffer of 8 bytes or fewer is read from offset 0, its first four
\* bytes being the name length.
C9_PrefixSkip ==
    (Returned /\ dec_origin.kind # "text") =>
        LET d == dec_origin.bytes
        IN  IF Len(d) > PrefixLen THEN NameReadAt(d, PrefixLen) ELSE NameReadAt(d, 0)

\* exactly 8 bytes, all zero: three empty texts read from offset 0
C9_Witness ==
    /\ Returned
    /\ dec_origin.bytes = << 0, 0, 0, 0, 0, 0, 0, 0 >>
    /\ dec_origin.kind = "raw"
    /\ dec_result = Err("Data too short for URI length")

\* ------------------------------------------------------------------------
\* Claims about the pipeline (checked under Spec)
\* ------------------------------------------------------------------------

\* the update is a transaction whose metadata carries an execution error
ErrorPresent(u) ==
    u.oneof = "transaction" /\ u.info /\ u.sig_ok /\ u.meta = "err"

\* the update is a transaction without execution metadata: it has no
\* transaction info at all, or its info has no metadata
MetadataMissing(u) ==
    u.oneof = "transaction" /\ (~u.info \/ (u.sig_ok /\ u.meta = "none"))

\* C10: parse_instruction runs only for a transaction with metadata and
\* without an execution error: a transaction with an error present ends with
\* no scan and no event, a transaction with missing metadata ends with no
\* scan, no event and a reported error, and after either the consumer is
\* back at rx.recv() for the next update.
C10_FilteredBeforeScan ==
    \A i \in 1..Len(done) :
        /\ done[i].scanned =>
               ~ErrorPresent(done[i].update) /\ ~MetadataMissing(done[i].update)
        /\ ErrorPresent(done[i].update) =>
               done[i] = Outcome(done[i].update, "skipped", FALSE, 0)
        /\ MetadataMissing(done[i].update) =>
               done[i] = Outcome(done[i].update, "reported", FALSE, 0)

\* the consumer took a transaction update without transaction info and
\* panicked in the conversion, with another update still in the channel
C10_PanicOnMissingInfo ==
    /\ cons_pc = "panicked"
    /\ ~msg.info
    /\ tx = Panic("should be defined")
    /\ queue # << >>
    /\ reported = << >>

\* the part of C10 about a transaction with an error present: it ends with
\* no scan and no event, and the consumer goes on
C10_ErrorPresentSkipped ==
    \A i \in 1..Len(done) :
        /\ done[i].scanned => ~ErrorPresent(done[i].update)
        /\ ErrorPresent(done[i].update) =>
               done[i] = Outcome(done[i].update, "skipped", FALSE, 0)

\* the update the producer holds in tx.send, and the one the consumer is
\* processing, as sequences of at most one update
InSend == IF prod_pc = "send" THEN << pending >> ELSE << >>

InProcess == IF cons_pc \in { "from", "process" } THEN << msg >> ELSE << >>

ChannelFull == Len(queue) = ChannelCapacity

\* C11: the channel never holds more updates than its capacity; while it is
\* full a producer that has an update to send keeps it (it waits in tx.send)
\* and the channel only changes by the consumer taking its head; and while
\* the consumer runs every update the stream yielded is either done with,
\* being processed, in the channel or held by the producer: none is dropped.
C11_BoundedNoDrop ==
    [][ /\ Len(queue') <= ChannelCapacity
        /\ (ChannelFull /\ prod_pc = "send") =>
               /\ prod_pc' = "send"
               /\ pending' = pending
               /\ queue' \in { queue, Tail(queue) }
        /\ Running' =>
               Len(received') =
                   Len(done') + Len(InProcess') + Len(queue') + Len(InSend') ]_vars

\* the channel is full and the producer waits with one more update while the
\* consumer has not taken any
C11_Witness ==
    /\ ChannelFull
    /\ prod_pc = "send"
    /\ cons_pc = "recv"
    /\ done = << >>
    /\ Len(received) = ChannelCapacity + 1

\* the updates the consumer is through with, in the order it ended them
DoneUpdates == [ i \in 1..Len(done) |-> done[i].update ]

\* the updates the consumer has taken from the channel so far
Taken == DoneUpdates \o InProcess

RECURSIVE SunkCount(_)
\* the events written for the first k updates done
SunkCount(k) == IF k = 0 THEN 0 ELSE SunkCount(k - 1) + done[k].events

\* C12: updates are taken for processing in exactly the order the stream
\* yielded them and one at a time: what the consumer has taken is a prefix of
\* what was received, all of it is done with except at most the one being
\* processed, the rest waits in that order in the channel and the producer's
\* send, and the events written are those of the updates done.
C12_InOrderOneAtATime ==
    /\ Len(Taken) <= Len(received)
    /\ Taken = SubSeq(received, 1, Len(Taken))
    /\ Running => received = Taken \o queue \o InSend
    /\ Len(sunk) = SunkCount(Len(done))

\* a creation was processed and written, then a failed transaction was
\* skipped, and a third update is being processed
C12_Witness ==
    /\ Len(done) = 2
    /\ done[1].outcome = "scanned"
    /\ done[1].events = 1
    /\ done[2].outcome = "skipped"
    /\ cons_pc = "process"
    /\ Len(received) = 3
    /\ Len(sunk) = 1

\* ------------------------------------------------------------------------
\* Whole transactions
\* ------------------------------------------------------------------------

AllLogs == TxLogs(invocations, Len(invocations))

\* the decoder accepts payload p
Accepts(p) == Decoded(ScanMemo, p).kind = "ok"

RECURSIVE EventsOf(_)
\* the events of the payloads of caps the decoder accepts, in order
EventsOf(caps) ==
    IF caps = << >> THEN << >>
    ELSE (IF Accepts(Head(caps)) THEN << Decoded(ScanMemo, Head(caps)).event >> ELSE << >>)
         \o EventsOf(Tail(caps))

\* C13: the scan has no failure mode: it never stops before the last line,
\* it returns Ok with the events collected, and the events are those of the
\* payloads handed to the decoder that the decoder accepts, so that a
\* rejected payload takes nothing from the invocations after it
C13_NoFailureMode ==
    /\ scan_pc \in { "loop", "done" }
    /\ \A i \in 1..Len(captures) : Decoded(ScanMemo, captures[i]).kind \in { "ok", "err" }
    /\ instructions = EventsOf(captures)
    /\ scan_pc = "done" =>
           /\ logs_read = Len(AllLogs)
           /\ scan_result = [kind |-> "ok", err |-> "", events |-> instructions]

\* C13 (witness): a rejected payload, then an invocation whose event is
\* returned
C13_Witness ==
    /\ scan_pc = "done"
    /\ invocations = << "create_bad", "create_a" >>
    /\ captures = << << "A", "A", "A", "A" >>, PayloadOf(RecA) >>
    /\ scan_result.events = << RecA >>

\* the payloads the scan of logs hands to the decoder
CapturesOf(logs) == ScanFold(ScanStart, logs, 1).captures

\* the scan of each invocation alone: its events and the payloads it hands
\* to the decoder
AloneScans ==
    [ kind \in InvocationKinds |->
        [events |-> parse_instruction(InvocationLines(kind)).events,
         captures |-> CapturesOf(InvocationLines(kind))] ]

Alone(kind) == AloneScans[kind].events

\* an invocation that closes at the top level with kind creation and a
\* payload that is not empty: the scan hands its payload to the decoder
ClosesAsCreation(kind) == AloneScans[kind].captures # << >>

RECURSIVE EventsUpTo(_, _)
\* the events of the first k invocations, each scanned alone, in order
EventsUpTo(invs, k) ==
    IF k = 0 THEN << >> ELSE EventsUpTo(invs, k - 1) \o Alone(invs[k])

\* the first k invocations are read, the next one is not begun
ReadUpTo(k) == logs_read = Len(TxLogs(invocations, k))

\* C15 (as stated): when k invocations are read there is one event for each
\* of them that closed with kind creation and a payload that is not empty
C15_OneEventPerCreation ==
    \A k \in 0..Len(invocations) :
        ReadUpTo(k) =>
            Len(instructions)
                = Cardinality({ i \in 1..k : ClosesAsCreation(invocations[i]) })

\* C15 (amended): when k invocations are read the events are those each of
\* the k invocations yields when scanned alone, in the order of closing: one
\* for each that closed with kind creation and a payload the decoder
\* accepts, none for the others; the scan returns them in that order
C15_EventsOfDecodedCreations ==
    /\ \A k \in 0..Len(invocations) :
           ReadUpTo(k) =>
               /\ instructions = EventsUpTo(invocations, k)
               /\ Len(instructions)
                      = Cardinality({ i \in 1..k :
                            /\ ClosesAsCreation(invocations[i])
                            /\ Accepts(AloneScans[invocations[i]].captures[1]) })
    /\ scan_pc = "done" =>
           scan_result.events = EventsUpTo(invocations, Len(invocations))

\* C15 (witness): two creations in one transaction, two events in the order
\* of closing
C15_Witness ==
    /\ scan_pc = "done"
    /\ invocations = << "create_long", "create_a" >>
    /\ scan_result.events = << RecLong, RecA >>

\* ------------------------------------------------------------------------
\* Rejected payloads in the pipeline
\* ------------------------------------------------------------------------

\* the scan of the logs of update u meets a payload the decoder rejects
HasRejected(u) ==
    \E i \in 1..Len(CapturesOf(u.logs)) : ~Accepts(CapturesOf(u.logs)[i])

ScannedWithRejected ==
    { i \in 1..Len(done) : done[i].scanned /\ HasRejected(done[i].update) }

\* the reports that are none of those main.rs writes (68, 80, 85, 96 with
\* the error of main.rs:110)
DecodeReports ==
    SelectSeq(reported,
              LAMBDA m : m \notin { "Failed to subscribe", "Stream error",
                                    "Failed to send update",
                                    "Missing transaction metadata" })

ReadsLine == logs_read' = logs_read + 1

\* the step reads the invoke line of a top-level invocation
OpensTopLevel == ReadsLine /\ invoke_depth = 0 /\ ContainsInvoke(log')

\* C16: the kind, the payload and its length are reset by the invoke line
\* that takes the depth from 0 to 1 and by no other line; so what they hold
\* (at closure too) comes from the lines read since the invoke line of the
\* invocation itself (marks and cands start again there), not from an
\* earlier top-level invocation of the transaction
C16_ResetAtTopLevelOnly ==
    [][ /\ OpensTopLevel =>
               /\ invoke_depth' = 1
               /\ current_instruction' = "none"
               /\ program_data' = << >>
               /\ last_data_len' = 0
        /\ (ReadsLine /\ ~OpensTopLevel) =>
               /\ current_instruction # "none" => current_instruction' # "none"
               /\ last_data_len' >= last_data_len
               /\ program_data # << >> => program_data' # << >>
        /\ current_instruction' # "none" => marks' # << >>
        /\ program_data' # << >> =>
               \E i \in 1..Len(cands') : program_data' = TrimStartMatches(cands'[i])
      ]_vars

\* C16 (witness): a top-level invocation without marker and data closed
\* after a creation, with nothing of the creation left and no second event
C16_Witness ==
    /\ invocations = << "create_a", "bare" >>
    /\ logs_read = 6
    /\ log = SuccessLine
    /\ invoke_depth = 0
    /\ current_instruction = "none"
    /\ program_data = << >>
    /\ instructions = << RecA >>

\* C17: at depth 0 a line that is no invoke line of the program changes none
\* of depth, kind, payload, payload length, events and payloads handed to the
\* decoder, be it an instruction marker, a data line or a success line; the
\* depth is never negative
C17_IgnoredOutside ==
    [][ /\ (ReadsLine /\ invoke_depth = 0 /\ ~ContainsInvoke(log')) =>
               UNCHANGED << scanLocals, captures >>
        /\ invoke_depth >= 0
        /\ invoke_depth' >= 0 ]_vars

\* C17 (witness): a success line was read after a marker and a data line,
\* all outside any invocation, after a creation
C17_Witness ==
    /\ invocations = << "create_a", "outside" >>
    /\ logs_read = 7
    /\ log = SuccessLine
    /\ invoke_depth = 0
    /\ current_instruction = "create"
    /\ program_data = PayloadOf(RecA)
    /\ instructions = << RecA >>

\* ------------------------------------------------------------------------
\* Order of the validation of the text fields
\* ------------------------------------------------------------------------

\* the message of the first check that fails on the buffer of r cut to k
\* bytes (k > PrefixLen), the checks taken in the order: length of the name,
\* bytes of the name, UTF-8 of the name, then the same for symbol and uri,
\* then the keys; a text is UTF-8 when it is one of Texts
FirstFailure(r, k) ==
    LET a == PrefixLen + 4
        b == a + Len(r.name)
        c == b + 4
        d == c + Len(r.symbol)
        e == d + 4
        f == e + Len(r.uri)
    IN  IF k < a THEN "Data too short for name length"
        ELSE IF k < b THEN "Data too short for name"
        ELSE IF r.name \notin Texts THEN "Invalid UTF-8 in name"
        ELSE IF k < c THEN "Data too short for symbol length"
        ELSE IF k < d THEN "Data too short for symbol"
        ELSE IF r.symbol \notin Texts THEN "Invalid UTF-8 in symbol"
        ELSE IF k < e THEN "Data too short for URI length"
        ELSE IF k < f THEN "Data too short for URI"
        ELSE IF r.uri \notin Texts THEN "Invalid UTF-8 in uri"
        ELSE "Data too short for public keys"

\* C18: name, symbol and uri are validated in this order, each one's length
\* and bytes before its UTF-8, and the error returned is that of the first
\* check that fails: a field with all its bytes present that is no UTF-8
\* yields the UTF-8 error of that field, whatever is wrong in later fields
C18_FirstFailingField ==
    (Returned /\ dec_origin.kind = "garbled") =>
        dec_result = Err(FirstFailure(dec_origin.rec, Len(dec_origin.bytes)))

\* C18 (witness): a whole buffer with a good name and two fields that are no
\* UTF-8: the error names the symbol
C18_Witness ==
    /\ Returned
    /\ dec_origin.kind = "garbled"
    /\ dec_origin.bytes = EncodeRecord(dec_origin.rec)
    /\ dec_origin.rec.name = << 65 >>
    /\ dec_origin.rec.symbol = << 255 >>
    /\ dec_origin.rec.uri = << 226, 130 >>
    /\ dec_result = Err("Invalid UTF-8 in symbol")

RECURSIVE LastKind(_)
\* the kind of the last of the marker names m that is Create, Buy or Sell
LastKind(m) ==
    IF m = << >> THEN "none"
    ELSE IF m[Len(m)] = "Create" THEN "create"
    ELSE IF m[Len(m)] \in { "Buy", "Sell" } THEN "trade"
    ELSE LastKind(SubSeq(m, 1, Len(m) - 1))

\* C19: the kind is that of the last instruction marker read at depth 1
\* since the invoke line that names Create, Buy or Sell (a marker naming
\* neither leaves it as it is), and the success line that closes the
\* invocation adds an event exactly if that kind is creation and the payload
\* held is one the decoder accepts
C19_LastMarkerWins ==
    [][ /\ current_instruction' = LastKind(marks')
        /\ (ReadsLine /\ invoke_depth = 1 /\ log' = SuccessLine) =>
               instructions' =
                   IF /\ LastKind(marks) = "create"
                      /\ program_data # << >>
                      /\ Accepts(program_data)
                   THEN Append(instructions, Decoded(ScanMemo, program_data).event)
                   ELSE instructions ]_vars

\* C19 (witness): Create then Buy at depth 1, a payload that decodes, and a
\* closure without event
C19_Witness ==
    /\ logs_read = 5
    /\ log = SuccessLine
    /\ invoke_depth = 0
    /\ marks = << "Create", "Buy" >>
    /\ current_instruction = "trade"
    /\ program_data = PayloadOf(RecA)
    /\ instructions = << >>

\* Buy, then a marker naming none of the three, then the closure: the kind
\* stays
C19_OtherMarkerKeeps ==
    /\ marks = << "Sell", "Withdraw" >>
    /\ current_instruction = "trade"
    /\ invoke_depth = 0

\* Buy then Create at depth 1: the closure emits the event
C19_CreateAfterBuy ==
    /\ logs_read = 5
    /\ marks = << "Buy", "Create" >>
    /\ invoke_depth = 0
    /\ instructions = << RecA >>

\* ------------------------------------------------------------------------
\* Progress of the consumer
\* ------------------------------------------------------------------------

\* the n-th update received has been put on the channel
Queued(n) == Len(done) + Len(InProcess) + Len(queue) >= n

\* the consumer is done with the n-th update and did not stop on it
Processed(n) == Len(done) >= n /\ done[n].outcome # "panic"

\* C20 (as stated): every update put on the channel is eventually taken and
\* processed; once the producer has stopped (end of the stream, failed
\* subscription) the consumer empties the channel and the function returns;
\* no update ends the consumer loop
C20_DrainsAndTerminates ==
    /\ \A n \in 1..MaxUpdates : Queued(n) ~> Processed(n)
    /\ (prod_pc = "stopped") ~> (cons_pc = "finished")
    /\ [](cons_pc # "panicked")

\* what holds of the loop under fair scheduling: every update put on the
\* channel is processed, and the function returns after the producer
\* stopped, unless a panic of the conversion or of the file append has ended
\* the program before
C20_DrainsUnlessPanic ==
    /\ \A n \in 1..MaxUpdates : Queued(n) ~> (Processed(n) \/ cons_pc = "panicked")
    /\ (prod_pc = "stopped") ~> (cons_pc \in { "finished", "panicked" })

\* the Err of process_tx_update is logged and the loop goes on; the loop is
\* left only at the end of the channel or by a panic, which is the last
\* thing the consumer does
C20_OnlyPanicEndsLoop ==
    /\ \A i \in 1..Len(done) :
           done[i].outcome = "panic" => (i = Len(done) /\ cons_pc = "panicked")
    /\ cons_pc = "panicked" => (done # << >> /\ done[Len(done)].outcome = "panic")
    /\ cons_pc = "finished" => (queue = << >> /\ prod_pc = "stopped")

\* the append of an event to the file failed and the consumer stopped with
\* an update still on the channel
C20_PanicLeavesQueued ==
    /\ cons_pc = "panicked"
    /\ queue # << >>
    /\ done[Len(done)].scanned
    /\ done[Len(done)].outcome = "panic"
====
